---- MODULE Spec2Model ----
(***************************************************************************)
(* Court Case Search (src/app.py): the search-button handler, the v4       *)
(* search call with its version guard, and the result normalisation        *)
(* (to_text, iso_date_or_raw, the per-item fallback chains).               *)
(*                                                                         *)
(* Python text is a TLA+ string; TLC evaluates Len, \o and SubSeq on       *)
(* strings, which gives character-level access.                            *)
(***************************************************************************)
EXTENDS Integers, Sequences, FiniteSets, TLC

VARIABLES
    kw,         \* the text of the search field when the button was pressed
    page,       \* the page number input
    env,        \* os.environ["COURTLISTENER_API_TOKEN"] ("" when unset)
    secrets,    \* st.secrets["COURTLISTENER_API_TOKEN"] ("" when unset)
    resp,       \* what the network gave back to the last request
    sent,       \* the HTTP requests put on the wire by the last button press
    outcome,    \* how the last button press ended
    display,    \* the widget the last button press rendered
    banner,     \* the st.error text of line 99, "" when not shown
    ui,         \* "ready", or "crashed" when an exception left the handler
    failedBefore, okBefore,   \* history: some earlier search failed / succeeded
    x, y, phase \* argument, result and progress of a directly called helper

vars == <<kw, page, env, secrets, resp, sent, outcome, display, banner, ui,
          failedBefore, okBefore, x, y, phase>>

appVars == <<kw, page, env, secrets, resp, sent, outcome, display, banner, ui,
             failedBefore, okBefore>>

fnVars == <<x, y, phase>>

(***************************************************************************)
(* Bounds of the model.                                                    *)
(***************************************************************************)
MaxPage == 2      \* page numbers 1..MaxPage
MaxItems == 2     \* longest "results" sequence handed to the normaliser
MaxElems == 2     \* longest sequence handed to to_text

(***************************************************************************)
(* Python str helpers.                                                     *)
(***************************************************************************)
Char(s, i) == SubSeq(s, i, i)

Contains(s, sub) ==
    \E i \in 1..(Len(s) - Len(sub) + 1) : SubSeq(s, i, i + Len(sub) - 1) = sub

StartsWith(s, p) == Len(s) >= Len(p) /\ SubSeq(s, 1, Len(p)) = p

Whitespace == {" ", "\t", "\n", "\r"}

RECURSIVE LStrip(_)
LStrip(s) ==
    IF Len(s) > 0 /\ Char(s, 1) \in Whitespace THEN LStrip(SubSeq(s, 2, Len(s))) ELSE s

RECURSIVE RStrip(_)
RStrip(s) ==
    IF Len(s) > 0 /\ Char(s, Len(s)) \in Whitespace
    THEN RStrip(SubSeq(s, 1, Len(s) - 1)) ELSE s

\* str.strip()
Strip(s) == RStrip(LStrip(s))

\* str.replace(c, "") for a one-character c: every occurrence goes
RECURSIVE RemoveAll(_, _)
RemoveAll(s, c) ==
    IF Len(s) = 0 THEN ""
    ELSE (IF Char(s, 1) = c THEN "" ELSE Char(s, 1)) \o RemoveAll(SubSeq(s, 2, Len(s)), c)

\* s[:n]
Take(s, n) == SubSeq(s, 1, IF Len(s) < n THEN Len(s) ELSE n)

RECURSIVE Rep(_, _)
Rep(s, n) ==
    IF n = 0 THEN ""
    ELSE IF n % 2 = 0 THEN LET h == Rep(s, n \div 2) IN h \o h
    ELSE s \o Rep(s, n - 1)

\* sep.join(parts)
RECURSIVE Join(_, _)
Join(sep, parts) ==
    IF Len(parts) = 0 THEN ""
    ELSE IF Len(parts) = 1 THEN parts[1]
    ELSE parts[1] \o sep \o Join(sep, Tail(parts))

RECURSIVE SelectNonEmpty(_)
SelectNonEmpty(parts) ==
    IF Len(parts) = 0 THEN <<>>
    ELSE (IF parts[1] # "" THEN <<parts[1]>> ELSE <<>>) \o SelectNonEmpty(Tail(parts))

Digits == "0123456789"

IsDigit(c) == \E d \in 1..10 : Char(Digits, d) = c

DigitVal(c) == (CHOOSE d \in 1..10 : Char(Digits, d) = c) - 1

AllDigits(s) == \A i \in 1..Len(s) : IsDigit(Char(s, i))

RECURSIVE ToInt(_)
ToInt(s) == IF Len(s) = 0 THEN 0 ELSE 10 * ToInt(SubSeq(s, 1, Len(s) - 1)) + DigitVal(Char(s, Len(s)))

\* zero-padded decimal of width w
Pad(n, w) == LET d == ToString(n) IN Rep("0", w - Len(d)) \o d

(***************************************************************************)
(* Decoded JSON values as Python objects.  A dict keeps its insertion      *)
(* order as a sequence of <<key, value>> pairs with distinct keys.         *)
(***************************************************************************)
None == [t |-> "none"]
Str(s) == [t |-> "str", s |-> s]
Num(n) == [t |-> "int", n |-> n]
List(xs) == [t |-> "list", xs |-> xs]
Dict(kv) == [t |-> "dict", kv |-> kv]

IsStr(v) == v.t = "str"

\* bool(v)
Truthy(v) ==
    CASE v.t = "none" -> FALSE
      [] v.t = "str" -> v.s # ""
      [] v.t = "int" -> v.n # 0
      [] v.t = "list" -> v.xs # <<>>
      [] v.t = "dict" -> v.kv # <<>>

\* a or b
Or(a, b) == IF Truthy(a) THEN a ELSE b

Keys(d) == {d.kv[i][1] : i \in 1..Len(d.kv)}

\* d.get(k)
Get(d, k) ==
    IF k \in Keys(d) THEN d.kv[CHOOSE i \in 1..Len(d.kv) : d.kv[i][1] = k][2] ELSE None

\* d[k] for a key that is there
Item(d, k) == d.kv[CHOOSE i \in 1..Len(d.kv) : d.kv[i][1] = k][2]

RECURSIVE PyRepr(_)
\* repr(v); text in the model holds no quote characters
PyRepr(v) ==
    CASE v.t = "none" -> "None"
      [] v.t = "str" -> "'" \o v.s \o "'"
      [] v.t = "int" -> ToString(v.n)
      [] v.t = "list" -> "[" \o Join(", ", [i \in 1..Len(v.xs) |-> PyRepr(v.xs[i])]) \o "]"
      [] v.t = "dict" ->
            "{" \o Join(", ", [i \in 1..Len(v.kv) |->
                        "'" \o v.kv[i][1] \o "': " \o PyRepr(v.kv[i][2])]) \o "}"

\* str(v)
PyStr(v) == IF v.t = "str" THEN v.s ELSE PyRepr(v)

(***************************************************************************)
(* Date normalisation.                                                     *)
(***************************************************************************)
IsLeap(yr) == (yr % 4 = 0 /\ yr % 100 # 0) \/ yr % 400 = 0

DaysInMonth(yr, mo) ==
    IF mo = 2 THEN (IF IsLeap(yr) THEN 29 ELSE 28)
    ELSE IF mo \in {4, 6, 9, 11} THEN 30 ELSE 31

\* the date part of datetime.fromisoformat: YYYY-MM-DD naming a real day
ValidDatePart(d) ==
    /\ Len(d) = 10
    /\ AllDigits(SubSeq(d, 1, 4)) /\ Char(d, 5) = "-"
    /\ AllDigits(SubSeq(d, 6, 7)) /\ Char(d, 8) = "-"
    /\ AllDigits(SubSeq(d, 9, 10))
    /\ LET yr == ToInt(SubSeq(d, 1, 4))
           mo == ToInt(SubSeq(d, 6, 7))
           dy == ToInt(SubSeq(d, 9, 10))
       IN  /\ yr >= 1
           /\ mo \in 1..12
           /\ dy >= 1 /\ dy <= DaysInMonth(yr, mo)

\* the time part of datetime.fromisoformat: HH, HH:MM or HH:MM:SS
ValidTimePart(tm) ==
    /\ Len(tm) \in {2, 5, 8}
    /\ AllDigits(SubSeq(tm, 1, 2)) /\ ToInt(SubSeq(tm, 1, 2)) <= 23
    /\ Len(tm) >= 5 =>
          /\ Char(tm, 3) = ":"
          /\ AllDigits(SubSeq(tm, 4, 5)) /\ ToInt(SubSeq(tm, 4, 5)) <= 59
    /\ Len(tm) = 8 =>
          /\ Char(tm, 6) = ":"
          /\ AllDigits(SubSeq(tm, 7, 8)) /\ ToInt(SubSeq(tm, 7, 8)) <= 59

\* whether datetime.fromisoformat(s) returns: a date, then optionally any one
\* separator character and a time
FromIsoOk(s) ==
    /\ Len(s) >= 10
    /\ ValidDatePart(SubSeq(s, 1, 10))
    /\ Len(s) > 10 => ValidTimePart(SubSeq(s, 12, Len(s)))

\* datetime.fromisoformat(s).date().isoformat(), for s that parses
DateIsoformat(s) ==
    Pad(ToInt(SubSeq(s, 1, 4)), 4) \o "-" \o Pad(ToInt(SubSeq(s, 6, 7)), 2)
        \o "-" \o Pad(ToInt(SubSeq(s, 9, 10)), 2)

\* a non-str truthy argument has no .replace: the AttributeError is caught by
\* "except Exception" and the argument itself is returned
iso_date_or_raw(s) ==
    IF ~Truthy(s) THEN Str("")
    ELSE IF ~IsStr(s) THEN s
    ELSE LET stripped == RemoveAll(s.s, "Z")
         IN  IF FromIsoOk(stripped) THEN Str(DateIsoformat(stripped)) ELSE s

(***************************************************************************)
(* Universal string converter.                                             *)
(***************************************************************************)
CiteOf(e) == Or(Or(Get(e, "cite"), Get(e, "citation")), Get(e, "citation_string"))

\* lines 67-73: one element of a list
ListPart(e) ==
    IF e.t = "dict"
    THEN LET v0 == CiteOf(e)
             v  == IF ~Truthy(v0) /\ {"volume", "reporter", "page"} \subseteq Keys(e)
                   THEN Str(PyStr(Item(e, "volume")) \o " " \o PyStr(Item(e, "reporter"))
                                \o " " \o PyStr(Item(e, "page")))
                   ELSE v0
         IN  IF v # None THEN PyStr(v) ELSE ""
    ELSE PyStr(e)

to_text(v) ==
    IF v = None THEN Str("")
    ELSE IF v.t = "list"
         THEN Str(Join("; ", SelectNonEmpty([i \in 1..Len(v.xs) |-> ListPart(v.xs[i])])))
    ELSE IF v.t = "dict" THEN Or(CiteOf(v), Str(PyStr(v)))
    ELSE Str(PyStr(v))

(***************************************************************************)
(* Field extraction of one result item (the body of the loop, lines        *)
(* 114-138).  item.get on anything but a dict raises AttributeError.       *)
(***************************************************************************)
WEB_HOST == "https://www.courtlistener.com"

\* the chain of lines 116-119 with its first two keys swapped
case_name_raw_swapped(item) ==
    Or(Or(Or(Get(item, "case_name"), Get(item, "caseName")), Get(item, "caption")),
       Get(item, "caption_abbreviated"))

case_name_raw(item) ==
    Or(Or(Or(Get(item, "caseName"), Get(item, "case_name")), Get(item, "caption")),
       Get(item, "caption_abbreviated"))

raw_date(item) == Or(Or(Get(item, "dateFiled"), Get(item, "date_filed")), Get(item, "date"))

citation_raw(item) ==
    Or(Or(Get(item, "citation"), Get(item, "citation_string")), Get(item, "citations"))

abs_url(item) == Or(Get(item, "absolute_url"), Get(item, "absoluteUrl"))

full_url(u) == IF IsStr(u) /\ StartsWith(u.s, "/") THEN Str(WEB_HOST \o u.s) ELSE to_text(u)

Columns == <<"Case Name", "Court", "Date", "Citation", "URL">>

RowOf(item) ==
    ("Case Name" :> to_text(case_name_raw(item)))
    @@ ("Court" :> to_text(Get(item, "court")))
    @@ ("Date" :> iso_date_or_raw(raw_date(item)))
    @@ ("Citation" :> to_text(citation_raw(item)))
    @@ ("URL" :> full_url(abs_url(item)))

\* the loop over data["results"]: the rows, or the exception that ends it
ExtractRows(results) ==
    IF results.t \in {"none", "int"} THEN [ok |-> FALSE, exc |-> "TypeError"]
    ELSE LET items == IF results.t = "list" THEN results.xs
                      ELSE IF results.t = "dict"
                           THEN [i \in 1..Len(results.kv) |-> Str(results.kv[i][1])]
                      ELSE [i \in 1..Len(results.s) |-> Str(Char(results.s, i))]
         IN  IF \E i \in 1..Len(items) : items[i].t # "dict"
             THEN [ok |-> FALSE, exc |-> "AttributeError"]
             ELSE [ok |-> TRUE, rows |-> [i \in 1..Len(items) |-> RowOf(items[i])]]

(***************************************************************************)
(* Arguments for the helpers when they are called on their own.            *)
(***************************************************************************)
Absent == [t |-> "absent"]

\* the dict of the pairs whose value is there, in the order given
RECURSIVE Present(_)
Present(pairs) ==
    IF Len(pairs) = 0 THEN <<>>
    ELSE (IF pairs[1][2] = Absent THEN <<>> ELSE <<pairs[1]>>) \o Present(Tail(pairs))

DictOf(pairs) == Dict(Present(pairs))

SeqsUpTo(S, n) == UNION {[1..k -> S] : k \in 0..n}

RoeCite == Dict(<<<<"volume", Num(410)>>, <<"reporter", Str("U.S.")>>, <<"page", Num(113)>>>>)

DateStrings ==
    {pre \o yr \o "-" \o mo \o "-" \o dy \o suf :
        pre \in {"", "Z"}, yr \in {"2021", "2024"}, mo \in {"02", "05", "13"},
        dy \in {"03", "29", "30"},
        suf \in {"", "Z", "T00:00:00Z", "T00:00:00", "T24:00:00", " 10:30", "ZT10:30Z", "ZZ"}}
    \cup {"", "Z", "not-a-date", "1973-01-22", "2021-05-0Z3", "2021-5-3", "0000-01-01",
          "2021-05-03T", "2021-05-03T1", "2021-05-03T10:3"}

DateInputs ==
    {Str(s) : s \in DateStrings}
    \cup {None, Num(0), Num(2021), List(<<>>), List(<<Str("2021-05-03")>>), Dict(<<>>),
          Dict(<<<<"year", Num(2021)>>>>)}

CiteRecords ==
    {DictOf(<<<<"cite", c>>, <<"citation", ci>>, <<"citation_string", cs>>,
              <<"volume", vrp[1]>>, <<"reporter", vrp[2]>>, <<"page", vrp[3]>>>>) :
        c \in {Absent, None, Str(""), Str("1 U.S. 1"), Num(5)},
        ci \in {Absent, Str("2 F.3d 2")},
        cs \in {Absent, Str("3 Cal. 3"), Num(0)},
        vrp \in {<<Absent, Absent, Absent>>, <<Num(410), Absent, Absent>>,
                 <<Num(410), Str("U.S."), Num(113)>>}}

TextElems ==
    {None, Str(""), Str("93 S. Ct. 705"), Num(0), RoeCite, Dict(<<>>),
     Dict(<<<<"cite", Str("1 U.S. 1")>>>>), List(<<Str("a")>>)}

TextInputs ==
    {None, Str(""), Str("410 U.S. 113"), Num(0), Num(113)}
    \cup CiteRecords
    \cup {List(xs) : xs \in SeqsUpTo(TextElems, MaxElems)}

NameItems ==
    {DictOf(<<<<"caseName", a>>, <<"case_name", b>>, <<"caption", c>>,
              <<"caption_abbreviated", d>>>>) :
        a \in {Absent, None, Str(""), Str("Roe v. Wade")},
        b \in {Absent, Str(""), Str("Doe v. Bolton")},
        c \in {Absent, Str("In re Gault")},
        d \in {Absent, Num(0), Str("Gault")}}

DateItems ==
    {DictOf(<<<<"dateFiled", a>>, <<"date_filed", b>>, <<"date", c>>>>) :
        a \in {Absent, None, Str(""), Str("1973-01-22"), Num(1973)},
        b \in {Absent, Str("2021-05-03T00:00:00Z")},
        c \in {Absent, Str("not-a-date"), Num(0)}}

CitationItems ==
    {DictOf(<<<<"citation", a>>, <<"citation_string", b>>, <<"citations", c>>>>) :
        a \in {Absent, List(<<>>), List(<<RoeCite>>), Str("410 U.S. 113")},
        b \in {Absent, Str(""), Str("93 S. Ct. 705")},
        c \in {Absent, List(<<Str("35 L. Ed. 2d 147")>>)}}

UrlItems ==
    {DictOf(<<<<"court", k>>, <<"absolute_url", a>>, <<"absoluteUrl", b>>>>) :
        k \in {Absent, Str("scotus")},
        a \in {Absent, None, Str(""), Str("/opinion/108713/roe-v-wade/"),
               Str("https://example.org/x")},
        b \in {Absent, Str("/opinion/1/"), Num(0)}}

RoeItem ==
    Dict(<<<<"caseName", Str("Roe v. Wade")>>, <<"court", Str("scotus")>>,
           <<"dateFiled", Str("1973-01-22")>>, <<"citation", List(<<RoeCite>>)>>,
           <<"absolute_url", Str("/opinion/108713/roe-v-wade/")>>>>)

Items == NameItems \cup DateItems \cup CitationItems \cup UrlItems \cup {RoeItem}

\* the items that appear in sequences of two and more
SeqItems ==
    {RoeItem, Dict(<<>>), Dict(<<<<"case_name", Str("Doe v. Bolton")>>>>),
     Dict(<<<<"caption", Str("In re Gault")>>, <<"date", Str("not-a-date")>>>>)}

ResultSeqs ==
    {<<i>> : i \in Items} \cup SeqsUpTo(SeqItems, MaxItems)

(***************************************************************************)
(* The search call.                                                        *)
(***************************************************************************)
API_BASE == "https://www.courtlistener.com/api/rest/v4"

PAGE_SIZE == 20

TIMEOUT == 30

BODY_LIMIT == 600

\* the tuple of line 97 with 308 left out
REDIRECT_CODES_no308 == {301, 302, 303, 307}

REDIRECT_CODES == {301, 302, 303, 307, 308}

\* every exception class the handler can meet derives from Exception
ExceptionClasses ==
    {"RuntimeError", "Timeout", "ConnectionError", "JSONDecodeError", "AttributeError",
     "TypeError"}

Raise(exc, why, status, body) ==
    [kind |-> "raise", exc |-> exc, why |-> why, status |-> status, body |-> body]

Return(rows, url) == [kind |-> "return", rows |-> rows, url |-> url]

\* get_token without its "if not token: raise"
get_token_unchecked(e, s) == [ok |-> TRUE, token |-> Strip(IF e # "" THEN e ELSE s)]

\* lines 39-43: the first non-empty store wins, and only then is it stripped
get_token(e, s) ==
    LET token == Strip(IF e # "" THEN e ELSE s)
    IN  [ok |-> token # "", token |-> token]

\* lines 46-53
make_session(e, s) ==
    LET t == get_token(e, s)
    IN  IF ~t.ok THEN [ok |-> FALSE]
        ELSE [ok |-> TRUE,
              headers |-> ("Authorization" :> ("Token " \o t.token))
                          @@ ("User-Agent" :> "CourtCaseSearchApp (victor.rosas.5000@gmail.com)")
                          @@ ("Accept" :> "application/json")]

\* assert_v4_url with the check dropped
assert_v4_url_off(url) == TRUE

\* lines 56-58: TRUE when the check lets the call go on
assert_v4_url(url) == Contains(url, "/api/rest/v4/")

\* the query-string encoding requests applies to a parameter value
RECURSIVE QuotePlus(_)
QuotePlus(s) ==
    IF Len(s) = 0 THEN ""
    ELSE (CASE Char(s, 1) = " " -> "+"
            [] Char(s, 1) = "/" -> "%2F"
            [] OTHER -> Char(s, 1)) \o QuotePlus(SubSeq(s, 2, Len(s)))

\* lines 83-91
SearchParams(keyword, pg) ==
    <<<<"q", keyword>>, <<"type", "o">>, <<"order_by", "score desc">>,
      <<"page", ToString(pg)>>, <<"page_size", ToString(PAGE_SIZE)>>,
      <<"stat_Published", "on">>>>

\* r.request.url: the URL requests prepared from url and params
PreparedUrl(url, params) ==
    url \o "?" \o Join("&", [i \in 1..Len(params) |->
                                params[i][1] \o "=" \o QuotePlus(params[i][2])])

\* sess.get with allow_redirects left at its default: the target is requested too
HttpGetFollowing(req, net) ==
    [wire |-> IF net.net = "ok" /\ net.status \in {301, 302, 303, 307, 308}
              THEN <<req, [req EXCEPT !.url = net.location]>> ELSE <<req>>,
     r |-> net]

\* line 94, sess.get(..., allow_redirects=False): one request goes out and what
\* the network answers to it is the result, whatever its status
HttpGet(req, net) == [wire |-> <<req>>, r |-> net]

\* lines 111-140
ParseRows(r, url) ==
    IF r.json.t = "invalid" THEN Raise("JSONDecodeError", "parse", 0, "")
    ELSE IF r.json.t # "dict" THEN Raise("AttributeError", "parse", 0, "")
    ELSE LET results == IF "results" \in Keys(r.json) THEN Item(r.json, "results")
                        ELSE List(<<>>)
             got == ExtractRows(results)
         IN  IF got.ok THEN Return(got.rows, url) ELSE Raise(got.exc, "parse", 0, "")

\* lines 80-140: the requests sent, the st.error banner shown, and the result
call_v4_search(keyword, pg, e, s, net) ==
    LET sess == make_session(e, s)
        url == API_BASE \o "/search/"
        params == SearchParams(keyword, pg)
    IN  IF ~sess.ok
        THEN [sent |-> <<>>, banner |-> "", result |-> Raise("RuntimeError", "config", 0, "")]
        ELSE
        LET req == [method |-> "GET", url |-> url, params |-> params,
                    headers |-> sess.headers, timeout |-> TIMEOUT,
                    allow_redirects |-> FALSE]
            got == HttpGet(req, net)
            r == got.r
            final == PreparedUrl(url, params)
        IN  IF r.net # "ok"
            THEN [sent |-> got.wire, banner |-> "", result |-> Raise(r.net, "network", 0, "")]
            ELSE IF r.status \in REDIRECT_CODES
            THEN [sent |-> got.wire,
                  banner |-> "Server attempted to redirect (" \o ToString(r.status)
                                \o ") to: " \o r.location,
                  result |-> IF ~assert_v4_url(r.location)
                             THEN Raise("RuntimeError", "version", 0, "")
                             ELSE Raise("RuntimeError", "redirect", 0, "")]
            ELSE IF r.status # 200
            THEN [sent |-> got.wire, banner |-> "",
                  result |-> Raise("RuntimeError", "status", r.status, Take(r.text, BODY_LIMIT))]
            ELSE IF ~assert_v4_url(final)
            THEN [sent |-> got.wire, banner |-> "",
                  result |-> Raise("RuntimeError", "version", 0, "")]
            ELSE [sent |-> got.wire, banner |-> "", result |-> ParseRows(r, final)]

\* "except RuntimeError" in place of "except Exception"
CaughtRuntimeErrorOnly(exc) == exc = "RuntimeError"

\* line 171, "except Exception"
Caught(exc) == exc \in ExceptionClasses

(***************************************************************************)
(* What the network can answer.                                            *)
(***************************************************************************)
NoResponse == [net |-> "none"]

Invalid == [t |-> "invalid"]

Http(status, location, text, json) ==
    [net |-> "ok", status |-> status, location |-> location, text |-> text, json |-> json]

Payloads ==
    {Invalid, List(<<>>), Dict(<<>>),
     Dict(<<<<"results", None>>>>),
     Dict(<<<<"results", List(<<>>)>>>>),
     Dict(<<<<"count", Num(1)>>, <<"results", List(<<RoeItem>>)>>>>),
     Dict(<<<<"results", List(<<RoeItem, Str("x")>>)>>>>),
     Dict(<<<<"results", List(<<Dict(<<<<"case_name", Str("Doe v. Bolton")>>>>), RoeItem>>)>>>>)}

Locations ==
    {"", "https://www.courtlistener.com/api/rest/v3/search/",
     "https://www.courtlistener.com/api/rest/v4/search/?q=roe", "/api/rest/v4"}

Bodies == {"", "Not Found", Rep("x", BODY_LIMIT), Rep("ab", BODY_LIMIT \div 2) \o "c"}

Responses ==
    {[net |-> "Timeout"], [net |-> "ConnectionError"]}
    \cup {Http(200, "", "", p) : p \in Payloads}
    \cup {Http(st, loc, "", Invalid) :
            st \in {300, 301, 302, 303, 304, 305, 307, 308, 399}, loc \in Locations}
    \cup {Http(st, "", b, Invalid) : st \in {201, 204, 300, 304, 404, 500}, b \in Bodies}

Keywords == {"", "  ", " roe v wade "}

EnvValues == {"", " ", "tok"}

SecretValues == {"", "tok "}

(***************************************************************************)
(* The application: the script runs again on every press of Search.        *)
(***************************************************************************)
Init ==
    /\ kw = "" /\ page = 1 /\ env = "" /\ secrets = ""
    /\ resp = NoResponse /\ sent = <<>> /\ outcome = [kind |-> "none"]
    /\ display = "none" /\ banner = "" /\ ui = "ready"
    /\ failedBefore = FALSE /\ okBefore = FALSE
    /\ x = None /\ y = None /\ phase = "idle"

\* lines 157-172, with the network's answer net to the request, if one is sent
\* (q and call are bound once, as the code computes them once)
Handle(k, p, e, s, net) ==
    \E q \in {Strip(k)} : \E call \in {call_v4_search(q, p, e, s, net)} :
        /\ kw' = k /\ page' = p /\ env' = e /\ secrets' = s
        /\ IF q = ""
           THEN /\ resp' = NoResponse /\ sent' = <<>> /\ banner' = ""
                /\ outcome' = [kind |-> "rejected"]
                /\ display' = "warning"
                /\ ui' = "ready"
           ELSE /\ sent' = call.sent
                /\ resp' = IF call.sent = <<>> THEN NoResponse ELSE net
                /\ banner' = call.banner
                /\ outcome' = call.result
                /\ display' = IF call.result.kind = "raise" THEN "exception"
                              ELSE IF call.result.rows = <<>> THEN "info"
                              ELSE "dataframe"
                /\ ui' = IF call.result.kind = "raise" /\ ~Caught(call.result.exc)
                         THEN "crashed" ELSE "ready"

\* whether pressing Search with these inputs puts a request on the wire
Sends(k, p, e, s) ==
    Strip(k) # "" /\ call_v4_search(Strip(k), p, e, s, NoResponse).sent # <<>>

\* a press of Search; the network answers only when a request is sent
ClickSearch ==
    /\ ui = "ready"
    /\ \E k \in Keywords, p \in 1..MaxPage, e \in EnvValues, s \in SecretValues :
          IF Sends(k, p, e, s)
          THEN \E net \in Responses : Handle(k, p, e, s, net)
          ELSE Handle(k, p, e, s, NoResponse)
    /\ failedBefore' = (failedBefore \/ outcome.kind = "raise")
    /\ okBefore' = (okBefore \/ outcome.kind = "return")
    /\ UNCHANGED fnVars

Next == ClickSearch

Spec == Init /\ [][Next]_vars

(***************************************************************************)
(* iso_date_or_raw called on its own.                                      *)
(***************************************************************************)
AppIdle ==
    /\ kw = "" /\ page = 1 /\ env = "" /\ secrets = ""
    /\ resp = NoResponse /\ sent = <<>> /\ outcome = [kind |-> "none"]
    /\ display = "none" /\ banner = "" /\ ui = "ready"
    /\ failedBefore = FALSE /\ okBefore = FALSE

InitDate == AppIdle /\ x \in DateInputs /\ y = None /\ phase = "picked"

PickDate ==
    /\ phase = "returned"
    /\ x' \in DateInputs /\ y' = None /\ phase' = "picked"
    /\ UNCHANGED appVars

CallIsoDate ==
    /\ phase = "picked"
    /\ y' = iso_date_or_raw(x) /\ phase' = "returned"
    /\ UNCHANGED <<x, appVars>>

NextDate == PickDate \/ CallIsoDate

SpecDate == InitDate /\ [][NextDate]_vars

(***************************************************************************)
(* to_text called on its own.                                              *)
(***************************************************************************)
InitText == AppIdle /\ x \in TextInputs /\ y = None /\ phase = "picked"

PickText ==
    /\ phase = "returned"
    /\ x' \in TextInputs /\ y' = None /\ phase' = "picked"
    /\ UNCHANGED appVars

CallToText ==
    /\ phase = "picked"
    /\ y' = to_text(x) /\ phase' = "returned"
    /\ UNCHANGED <<x, appVars>>

NextText == PickText \/ CallToText

SpecText == InitText /\ [][NextText]_vars

(***************************************************************************)
(* The normaliser (the loop of lines 113-138) run on a "results" sequence. *)
(***************************************************************************)
InitNorm == AppIdle /\ x \in ResultSeqs /\ y = None /\ phase = "picked"

PickResults ==
    /\ phase = "returned"
    /\ x' \in ResultSeqs /\ y' = None /\ phase' = "picked"
    /\ UNCHANGED appVars

CallNormalize ==
    /\ phase = "picked"
    /\ y' = ExtractRows(List(x)) /\ phase' = "returned"
    /\ UNCHANGED <<x, appVars>>

NextNorm == PickResults \/ CallNormalize

SpecNorm == InitNorm /\ [][NextNorm]_vars

(***************************************************************************)
(* Properties.                                                             *)
(***************************************************************************)
HasV4(u) == \E i \in 1..Len(u) : i + 12 <= Len(u) /\ SubSeq(u, i, i + 12) = "/api/rest/v4/"

Blank(s) == \A i \in 1..Len(s) : Char(s, i) \in Whitespace

\* the last press of Search went on to call_v4_search
Searched == outcome.kind \in {"raise", "return"}

\* a request went out and an HTTP response came back
Answered == Searched /\ resp.net = "ok"

Failed(why) == outcome.kind = "raise" /\ outcome.why = why

\* the URL requests prepared for the request that went out
ResolvedRequestUrl == PreparedUrl(sent[1].url, sent[1].params)

VersionGuard(redirects) ==
    /\ (Answered /\ resp.status = 200 /\ ~HasV4(ResolvedRequestUrl)) => Failed("version")
    /\ (Answered /\ resp.status \in redirects /\ ~HasV4(resp.location)) => Failed("version")
    /\ outcome.kind = "return" => (resp.net = "ok" /\ HasV4(outcome.url))

\* C1 as stated: a 200 response whose request URL, or a 3xx response whose
\* Location header, lacks "/api/rest/v4/" ends in a version-mismatch failure,
\* and rows are only ever returned for a resolved URL that has the segment.
C1_VersionGuardAny3xx == VersionGuard(300..399)

\* C1 amended: a 200 response whose request URL, or a 301, 302, 303, 307 or
\* 308 response whose Location header, lacks "/api/rest/v4/" ends in a
\* version-mismatch failure, and rows are only ever returned for a resolved
\* URL that has the segment.  (The request URL is built from API_BASE, so on
\* a 200 response the segment is always there.)
C1_VersionGuard == VersionGuard({301, 302, 303, 307, 308})

C1_Witness ==
    /\ Answered /\ resp.status = 302
    /\ resp.location = "https://www.courtlistener.com/api/rest/v3/search/"
    /\ Failed("version")

\* C2: a search run with the credential blank (empty or whitespace only) in
\* both the environment and the secrets store ends in the configuration error,
\* shown as an exception, with no HTTP request sent.
C2_NoCredentialNoRequest ==
    (Searched /\ Blank(env) /\ Blank(secrets)) =>
        /\ Failed("config") /\ display = "exception"
        /\ sent = <<>> /\ resp = NoResponse

C2_Witness == Searched /\ env = " " /\ secrets = "" /\ Failed("config") /\ sent = <<>>

\* the credential get_token resolves is not blank: the environment variable
\* when it is set, the secrets store otherwise
Configured == IF env # "" THEN ~Blank(env) ELSE ~Blank(secrets)

StatusErrors(redirects) ==
    Answered =>
        /\ resp.status \in redirects =>
              (Failed("redirect") \/ Failed("version")) /\ outcome.exc = "RuntimeError"
        /\ Failed("status") <=> (resp.status # 200 /\ resp.status \notin redirects)
        /\ Failed("status") =>
              /\ outcome.status = resp.status
              /\ Len(outcome.body) <= 600
              /\ IF Len(resp.text) <= 600 THEN outcome.body = resp.text
                 ELSE outcome.body = SubSeq(resp.text, 1, 600)

\* C4 as stated: every 3xx response ends in a redirect failure (after the
\* version check of its target), never in a status failure; the status
\* failure, with the status code and the body cut to 600 characters, is
\* produced exactly for the statuses that are neither 200 nor 3xx.
C4_Every3xxIsRedirect == StatusErrors(300..399)

\* C4 amended: every 301, 302, 303, 307 or 308 response ends in a redirect
\* failure (after the version check of its target), never in a status
\* failure; the status failure, with the status code and the body cut to 600
\* characters, is produced exactly for the statuses other than 200 and these
\* five, 300 and 304 among them.
C4_RedirectCodes == StatusErrors({301, 302, 303, 307, 308})

C4_Witness ==
    /\ Answered /\ resp.status = 308 /\ HasV4(resp.location) /\ Failed("redirect")
    /\ banner # ""

\* C5: every press leaves the application ready for the next one, a failed
\* search is shown as an exception, and pressing again with the same query,
\* page, credential and response gives the same result whatever came before.
C5_FailuresAreNotFatal ==
    [][/\ ui' = "ready"
       /\ outcome'.kind = "raise" => display' = "exception"
       /\ (kw' = kw /\ page' = page /\ env' = env /\ secrets' = secrets /\ resp' = resp
              /\ outcome.kind # "none")
             => (outcome' = outcome /\ display' = display /\ sent' = sent
                    /\ banner' = banner)]_vars

C5_Witness ==
    /\ failedBefore /\ okBefore /\ Failed("parse") /\ outcome.exc = "AttributeError"
    /\ display = "exception" /\ ui = "ready"

Populated(item, k) == k \in Keys(item) /\ Item(item, k) # None

\* the value under the first key of keys that is there and not null
RECURSIVE FirstNonNull(_, _)
FirstNonNull(item, keys) ==
    IF Len(keys) = 0 THEN None
    ELSE IF Populated(item, keys[1]) THEN Item(item, keys[1])
    ELSE FirstNonNull(item, Tail(keys))

\* the value under the first key of keys whose value is truthy; with no such
\* key, the value under the last key (None when that key is not there)
RECURSIVE FirstTruthy(_, _)
FirstTruthy(item, keys) ==
    IF Len(keys) = 1 THEN (IF keys[1] \in Keys(item) THEN Item(item, keys[1]) ELSE None)
    ELSE IF keys[1] \in Keys(item) /\ Truthy(Item(item, keys[1])) THEN Item(item, keys[1])
    ELSE FirstTruthy(item, Tail(keys))

NameKeys == <<"caseName", "case_name", "caption", "caption_abbreviated">>
DateKeys == <<"dateFiled", "date_filed", "date">>
CitationKeys == <<"citation", "citation_string", "citations">>
UrlKeys == <<"absolute_url", "absoluteUrl">>

Normalized == phase = "returned" /\ y.ok

\* C6 as stated: each of case name, date, citation and URL is made from the
\* value of the first candidate key that is present with a non-null value.
C6_FirstNonNullWins ==
    Normalized => \A i \in 1..Len(x) :
        /\ y.rows[i]["Case Name"] = to_text(FirstNonNull(x[i], NameKeys))
        /\ y.rows[i]["Date"] = iso_date_or_raw(FirstNonNull(x[i], DateKeys))
        /\ y.rows[i]["Citation"] = to_text(FirstNonNull(x[i], CitationKeys))
        /\ y.rows[i]["URL"] = full_url(FirstNonNull(x[i], UrlKeys))

\* C6 amended: each is made from the value of the first candidate key whose
\* value is truthy (not null, "", 0, an empty list or an empty record), and
\* from the value of the last candidate key when none is truthy.
C6_FirstTruthyWins ==
    Normalized => \A i \in 1..Len(x) :
        /\ y.rows[i]["Case Name"] = to_text(FirstTruthy(x[i], NameKeys))
        /\ y.rows[i]["Date"] = iso_date_or_raw(FirstTruthy(x[i], DateKeys))
        /\ y.rows[i]["Citation"] = to_text(FirstTruthy(x[i], CitationKeys))
        /\ y.rows[i]["URL"] = full_url(FirstTruthy(x[i], UrlKeys))

C6_Witness ==
    /\ Normalized /\ Len(x) = 1
    /\ Populated(x[1], "caseName") /\ Item(x[1], "caseName") = Str("Roe v. Wade")
    /\ Populated(x[1], "case_name") /\ Item(x[1], "case_name") = Str("Doe v. Bolton")
    /\ y.rows[1]["Case Name"] = Str("Roe v. Wade")

Synthesized(e) ==
    Str(PyStr(Item(e, "volume")) \o " " \o PyStr(Item(e, "reporter")) \o " "
            \o PyStr(Item(e, "page")))

\* what C7 says to_text gives for one record ("present" read as: there with a
\* value that is not null, empty or zero)
RecordText(e) ==
    IF Truthy(Get(e, "cite")) THEN Get(e, "cite")
    ELSE IF Truthy(Get(e, "citation")) THEN Get(e, "citation")
    ELSE IF Truthy(Get(e, "citation_string")) THEN Get(e, "citation_string")
    ELSE IF {"volume", "reporter", "page"} \subseteq Keys(e) THEN Synthesized(e)
    ELSE Str(PyStr(e))

\* C7: to_text of one record is its "cite", else "citation", else
\* "citation_string"; with none of them and all of volume, reporter and page
\* it is "<volume> <reporter> <page>"; only otherwise the record's str().
C7_RecordRule == (phase = "returned" /\ x.t = "dict") => y = RecordText(x)

\* C8: to_text of a sequence is to_text of each element, the empty results
\* dropped and the rest joined by "; " in order.
C8_ListIsJoinOfElements ==
    (phase = "returned" /\ x.t = "list") =>
        y = Str(Join("; ", SelectNonEmpty([i \in 1..Len(x.xs) |-> PyStr(to_text(x.xs[i]))])))

AllMissing(item, keys) == \A i \in 1..Len(keys) : ~Populated(item, keys[i])

\* C9: one row per item, in order; every field of every row is a string, and
\* the empty string when all its candidate keys are absent or null.
C9_RowsAreStrings ==
    Normalized =>
        /\ Len(y.rows) = Len(x)
        /\ \A i \in 1..Len(x) :
              /\ \A c \in {"Case Name", "Court", "Date", "Citation", "URL"} :
                    y.rows[i][c].t = "str"
              /\ AllMissing(x[i], NameKeys) => y.rows[i]["Case Name"] = Str("")
              /\ AllMissing(x[i], <<"court">>) => y.rows[i]["Court"] = Str("")
              /\ AllMissing(x[i], DateKeys) => y.rows[i]["Date"] = Str("")
              /\ AllMissing(x[i], CitationKeys) => y.rows[i]["Citation"] = Str("")
              /\ AllMissing(x[i], UrlKeys) => y.rows[i]["URL"] = Str("")

StripTrailingZ(s) ==
    IF Len(s) > 0 /\ Char(s, Len(s)) = "Z" THEN SubSeq(s, 1, Len(s) - 1) ELSE s

\* C10: absent or empty input gives ""; any other text gives the calendar
\* date of the timestamp it spells once a trailing "Z" is stripped, and is
\* returned as it is when, with only a trailing "Z" stripped, it spells none.
C10_OnlyTrailingZ ==
    phase = "returned" =>
        /\ (x = None \/ x = Str("")) => y = Str("")
        /\ (IsStr(x) /\ x.s # "") =>
              y = IF FromIsoOk(StripTrailingZ(x.s))
                  THEN Str(DateIsoformat(StripTrailingZ(x.s))) ELSE x

====
